---- MODULE Spec2Model ----
(***************************************************************************)
(* EvoForgePlus: the agent-DNA data model and its validation               *)
(* (evoforge/agent_dna_config.py), the graph execution engine              *)
(* (evoforge/engine.py, GraphAgent.forward) and the dual-loop evolution    *)
(* controller (evoforge/optimizer.py, EvoOptimizer).                       *)
(*                                                                         *)
(* Text is modelled as a sequence of one-character strings, a Python dict  *)
(* whose iteration order matters as a sequence of <<key, value>> pairs,    *)
(* and Python's None as the record NoneVal.                                *)
(***************************************************************************)
EXTENDS Integers, Sequences, FiniteSets, TLC

\* ------------------------------------------------------------------ bounds
\* flow entries of a raw configuration handed to AgentDNAConfig
MaxFlowLen == 2

\* ------------------------------------------------------------ Python values
NoneVal == [none |-> TRUE]

LowerChars == <<"a","b","c","d","e","f","g","h","i","j","k","l","m",
                "n","o","p","q","r","s","t","u","v","w","x","y","z">>
UpperChars == <<"A","B","C","D","E","F","G","H","I","J","K","L","M",
                "N","O","P","Q","R","S","T","U","V","W","X","Y","Z">>
Whitespace == {" ", "\n", "\t"}

\* str.upper(), one character
UpperChar(c) ==
    IF \E i \in 1..Len(LowerChars) : LowerChars[i] = c
    THEN UpperChars[CHOOSE i \in 1..Len(LowerChars) : LowerChars[i] = c]
    ELSE c

\* str.upper()
Upper(s) == [i \in 1..Len(s) |-> UpperChar(s[i])]

\* str.strip(): leading and trailing whitespace removed
Strip(s) ==
    LET keep == {i \in 1..Len(s) : s[i] \notin Whitespace}
    IN IF keep = {} THEN <<>>
       ELSE LET lo == CHOOSE i \in keep : \A j \in keep : i <= j
                hi == CHOOSE i \in keep : \A j \in keep : j <= i
            IN SubSeq(s, lo, hi)

\* Python's `sub in s` on strings
Contains(sub, s) ==
    \E i \in 0..(Len(s) - Len(sub)) : SubSeq(s, i + 1, i + Len(sub)) = sub

\* dict.get(k, dflt) on a mapping
Get(d, k, dflt) == IF k \in DOMAIN d THEN d[k] ELSE dflt

\* dict.get(k) on an insertion-ordered mapping kept as <<key, value>> pairs
HasKey(pairs, k) == \E i \in 1..Len(pairs) : pairs[i][1] = k
PairsGet(pairs, k, dflt) ==
    IF HasKey(pairs, k)
    THEN pairs[CHOOSE i \in 1..Len(pairs) : pairs[i][1] = k][2]
    ELSE dflt
Keys(pairs) == {pairs[i][1] : i \in 1..Len(pairs)}

\* =========================================================================
\* agent_dna_config.py
\* =========================================================================
ModuleTypes == {"ChainOfThought", "ReAct", "Predict"}

\* NodeConfig.validate_signature: the signature must contain "->"
validate_signature(v) == Contains(<<"-", ">">>, v)

\* BranchFlow(**rule) validates: type == "branch", source_var and branches given
IsBranchFlow(rule) ==
    /\ "type" \in DOMAIN rule /\ rule.type = "branch"
    /\ "source_var" \in DOMAIN rule
    /\ "branches" \in DOMAIN rule

\* SequenceFlow(**rule) validates: next given
IsSequenceFlow(rule) == "next" \in DOMAIN rule

\* FlowRule = Union[BranchFlow, SequenceFlow]: BranchFlow is tried first, fields a
\* model does not declare are ignored, `default` falls back to "end"
FlowRule(rule) ==
    IF IsBranchFlow(rule)
    THEN [kind |-> "branch", source_var |-> rule.source_var,
          branches |-> rule.branches, default |-> Get(rule, "default", "end")]
    ELSE [kind |-> "sequence", next |-> rule.next]

\* the errors of field validation, all collected in one ValidationError
FieldErrors(raw) ==
    {[loc |-> n, what |-> "signature", target |-> ""] :
        n \in {m \in DOMAIN raw.nodes : ~validate_signature(raw.nodes[m].signature)}}
    \cup
    {[loc |-> n, what |-> "type", target |-> ""] :
        n \in {m \in DOMAIN raw.nodes : raw.nodes[m].type \notin ModuleTypes}}
    \cup
    {[loc |-> raw.flow[i][1], what |-> "flow", target |-> ""] :
        i \in {j \in 1..Len(raw.flow) :
                 ~IsBranchFlow(raw.flow[j][2]) /\ ~IsSequenceFlow(raw.flow[j][2])}}

\* the model after field validation: every flow entry parsed to its variant
ParsedFields(raw) ==
    [agent_id |-> raw.agent_id,
     version |-> Get(raw, "version", 1),
     start_node |-> raw.start_node,
     nodes |-> raw.nodes,
     flow |-> [i \in 1..Len(raw.flow) |-> <<raw.flow[i][1], FlowRule(raw.flow[i][2])>>]]

\* check_graph_integrity, the loop over rule.branches.items(): the first
\* branch whose target is undefined raises
RECURSIVE BranchErrors(_, _, _, _)
BranchErrors(node_name, branches, i, valid_nodes) ==
    IF i > Len(branches) THEN <<>>
    ELSE IF branches[i][2] \notin valid_nodes
         THEN <<[loc |-> node_name, what |-> "branch", target |-> branches[i][2]]>>
         ELSE BranchErrors(node_name, branches, i + 1, valid_nodes)

\* check_graph_integrity, the check of the default target of a branch rule
DefaultErrors_skipped(node_name, rule, valid_nodes) == <<>>
DefaultErrors(node_name, rule, valid_nodes) ==
    IF rule.default \notin valid_nodes
    THEN <<[loc |-> node_name, what |-> "default", target |-> rule.default]>>
    ELSE <<>>

\* check_graph_integrity, the body of the loop over self.flow.items()
RuleErrors_nextUnchecked(node_name, rule, valid_nodes) ==
    IF rule.kind = "sequence" THEN <<>>
    ELSE LET be == BranchErrors(node_name, rule.branches, 1, valid_nodes)
         IN IF be # <<>> THEN be ELSE DefaultErrors(node_name, rule, valid_nodes)
RuleErrors(node_name, rule, valid_nodes) ==
    IF rule.kind = "sequence"
    THEN IF rule.next \notin valid_nodes
         THEN <<[loc |-> node_name, what |-> "next", target |-> rule.next]>>
         ELSE <<>>
    ELSE LET be == BranchErrors(node_name, rule.branches, 1, valid_nodes)
         IN IF be # <<>> THEN be ELSE DefaultErrors(node_name, rule, valid_nodes)

\* check_graph_integrity, the loop over self.flow.items(): the first error raises
RECURSIVE FlowErrors(_, _, _)
FlowErrors(flow, i, valid_nodes) ==
    IF i > Len(flow) THEN <<>>
    ELSE LET e == RuleErrors(flow[i][1], flow[i][2], valid_nodes)
         IN IF e # <<>> THEN e ELSE FlowErrors(flow, i + 1, valid_nodes)

\* AgentDNAConfig.check_graph_integrity: the ValueError it raises, <<>> if none
check_graph_integrity(self) ==
    LET valid_nodes == DOMAIN self.nodes \cup {"end"}
    IN IF self.start_node \notin valid_nodes
       THEN <<[loc |-> "", what |-> "start_node", target |-> self.start_node]>>
       ELSE FlowErrors(self.flow, 1, valid_nodes)

\* AgentDNAConfig(**raw): the instance, or the ValidationError with its errors
AgentDNAConfig(raw) ==
    LET fe == FieldErrors(raw)
    IN IF fe # {}
       THEN [ok |-> FALSE, errors |-> fe, config |-> NoneVal]
       ELSE LET self == ParsedFields(raw)
                ge == check_graph_integrity(self)
            IN IF ge # <<>>
               THEN [ok |-> FALSE, errors |-> {ge[1]}, config |-> NoneVal]
               ELSE [ok |-> TRUE, errors |-> {}, config |-> self]

\* BaseModel.model_dump of a flow rule: the declared fields of its variant, so
\* SequenceFlow gives next alone and BranchFlow gives type, source_var,
\* branches and default
dump_rule_defaultDropped(rule) ==
    IF rule.kind = "sequence" THEN [next |-> rule.next]
    ELSE [type |-> "branch", source_var |-> rule.source_var, branches |-> rule.branches]
dump_rule(rule) ==
    IF rule.kind = "sequence" THEN [next |-> rule.next]
    ELSE [type |-> "branch", source_var |-> rule.source_var,
          branches |-> rule.branches, default |-> rule.default]

\* AgentDNAConfig.model_dump: the declarative form of a config
model_dump(self) ==
    [agent_id |-> self.agent_id,
     version |-> self.version,
     start_node |-> self.start_node,
     nodes |-> self.nodes,
     flow |-> [i \in 1..Len(self.flow) |-> <<self.flow[i][1], dump_rule(self.flow[i][2])>>]]

\* ----------------------------------------------- raw configurations (inputs)
SigGood == <<"x", " ", "-", ">", " ", "y">>
SigNoArrow == <<"x", "y">>
SigBareArrow == <<"-", ">">>
SigSamples == {SigGood, SigNoArrow, SigBareArrow}

KeyYES == <<"Y", "E", "S">>
KeyNO == <<"N", "O">>

NodeNames == {"a", "b"}
Targets == {"a", "b", "end", "ghost"}

RawNode(sig) ==
    [type |-> "Predict", signature |-> sig, instruction |-> <<"d", "o">>, tools |-> <<>>]

RawNodesSamples ==
    {[n \in S |-> RawNode(sg[n])] : <<S, sg>> \in
        {<<S, sg>> \in {{"a"}, {"a", "b"}} \X [NodeNames -> {SigGood, SigNoArrow}] :
            \A n \in NodeNames \ S : sg[n] = SigGood}}
    \cup {[n \in {"a"} |-> RawNode(SigBareArrow)]}
    \cup {[n \in {"a"} |-> [RawNode(SigGood) EXCEPT !.type = "ReAct"]]}

RawRuleSamples ==
    {[next |-> t] : t \in {"b", "end", "ghost"}}
    \cup {[type |-> "sequence", next |-> "a"]}
    \cup {[type |-> "branch", source_var |-> "decision", branches |-> br] :
            br \in {<<>>, <<<<KeyYES, "b">>, <<KeyNO, "ghost">>>>}}
    \cup {[type |-> "branch", source_var |-> "decision",
            branches |-> <<<<KeyYES, "b">>, <<KeyNO, "a">>>>, default |-> d] :
            d \in {"a", "ghost"}}
    \cup {[type |-> "branch", source_var |-> "decision",
           branches |-> <<<<KeyYES, "a">>>>, next |-> "ghost"]}

FlowKeys == {"a", "b", "ghost"}

RawFlowSamples ==
    {f \in UNION {[1..n -> FlowKeys \X RawRuleSamples] : n \in 0..MaxFlowLen} :
        \A i, j \in 1..Len(f) : i < j => f[i][1] # f[j][1]}

RawConfigSamples ==
    {[agent_id |-> <<"m">>, start_node |-> s, nodes |-> ns, flow |-> f] :
        s \in {"a", "b", "end", "ghost"}, ns \in RawNodesSamples, f \in RawFlowSamples}
    \cup {[agent_id |-> <<"m">>, version |-> 2, start_node |-> "a",
           nodes |-> [n \in {"a", "b"} |-> RawNode(SigGood)], flow |-> f] :
            f \in {g \in RawFlowSamples : Len(g) = 1}}

\* =========================================================================
\* engine.py, GraphAgent.forward
\* =========================================================================
\* context values: str, None, and the list forward stores under "_trace_path"
PyStr(s) == [str |-> s]
PyList(l) == [list |-> l]
EmptyDict == [k \in {} |-> NoneVal]

\* str(v)
Str(v) == IF v = NoneVal THEN <<"N", "o", "n", "e">> ELSE v.str

\* the attributes GraphAgent.__init__ sets besides the node modules; "rules"
\* stands for them where a node name may collide with one
OwnAttributes == {"rules"}

\* hasattr(self, current_node_name)
HasAttr(self, name) == name \in self.modules \cup OwnAttributes

\* for k, v in prediction.items(): context[k] = v
Merge_keepFirst(context, outputs) ==
    [k \in DOMAIN context \cup DOMAIN outputs |->
        IF k \in DOMAIN context THEN context[k] ELSE outputs[k]]
Merge(context, outputs) ==
    [k \in DOMAIN context \cup DOMAIN outputs |->
        IF k \in DOMAIN outputs THEN outputs[k] ELSE context[k]]

\* the for loop over branches.items(): the first key whose upper-cased form
\* occurs in the upper-cased value gives the target and breaks; next_node
\* keeps its value if no key matches
MatchBranch_lastWins(branches, val, next_node) ==
    LET hits == {i \in 1..Len(branches) : Contains(Upper(branches[i][1]), Upper(val))}
    IN IF hits = {} THEN next_node
       ELSE branches[CHOOSE i \in hits : \A j \in hits : j <= i][2]
MatchFrom_exact(branches, val, i, next_node) ==
    LET hits == {k \in i..Len(branches) : Upper(branches[k][1]) = Upper(val)}
    IN IF hits = {} THEN next_node
       ELSE branches[CHOOSE k \in hits : \A j \in hits : k <= j][2]
RECURSIVE MatchFrom(_, _, _, _)
MatchFrom(branches, val, i, next_node) ==
    IF i > Len(branches) THEN next_node
    ELSE IF Contains(Upper(branches[i][1]), Upper(val))
         THEN branches[i][2]
         ELSE MatchFrom(branches, val, i + 1, next_node)
MatchBranch(branches, val, next_node) == MatchFrom(branches, val, 1, next_node)

\* the branch rule: val = str(context.get(source_var, "")).strip(), then the
\* scan, starting from next_node = rule.get("default", "end")
BranchNext(rule, context) ==
    LET val == IF "source_var" \in DOMAIN rule /\ rule.source_var \in DOMAIN context
               THEN Strip(Str(context[rule.source_var]))
               ELSE <<>>
    IN MatchBranch(Get(rule, "branches", <<>>), val, Get(rule, "default", "end"))

\* the routing logic: rule = self.rules.get(current_node_name); no rule ends
\* the run, a rule without a type is a sequence rule
ResolveNext_noRuleStays(self, node, context) ==
    IF node \notin DOMAIN self.rules \/ self.rules[node] = NoneVal
    THEN node
    ELSE LET rule == self.rules[node]
         IN IF Get(rule, "type", "sequence") = "branch"
            THEN BranchNext(rule, context)
            ELSE Get(rule, "next", "end")
ResolveNext(self, node, context) ==
    IF node \notin DOMAIN self.rules \/ self.rules[node] = NoneVal
    THEN "end"
    ELSE LET rule == self.rules[node]
         IN IF Get(rule, "type", "sequence") = "branch"
            THEN BranchNext(rule, context)
            ELSE Get(rule, "next", "end")

\* the local state of one call of forward
InitialFrame_noInputs(self, kwargs) ==
    [context |-> EmptyDict, current_node_name |-> self.start_node, steps |-> 0,
     trace_path |-> <<>>, status |-> "loop"]
InitialFrame(self, kwargs) ==
    [context |-> kwargs, current_node_name |-> self.start_node, steps |-> 0,
     trace_path |-> <<>>, status |-> "loop"]

\* while current_node_name != "end" and steps < self.max_steps (and no break)
Running_noBound(self, f) == f.status = "loop" /\ f.current_node_name # "end"
Running(self, f) ==
    f.status = "loop" /\ f.current_node_name # "end" /\ f.steps < self.max_steps

\* the except branch of the node call: the run breaks, context as it was
OnNodeError_mergePartial(f, trace, outcome) ==
    [f EXCEPT !.trace_path = trace, !.status = "exec_error",
              !.context = Merge(f.context, outcome.outputs)]
OnNodeError(f, trace, outcome) ==
    [f EXCEPT !.trace_path = trace, !.status = "exec_error"]

\* one pass of the loop body; outcome is what calling the module gives:
\* [fails |-> it raises, outputs |-> the prediction's items]
Iteration_appendAfter(self, f, outcome) ==
    LET node == f.current_node_name
        trace == Append(f.trace_path, node)
    IN IF ~HasAttr(self, node)
       THEN [f EXCEPT !.status = "undefined"]
       ELSE IF node \notin self.modules \/ outcome.fails
            THEN OnNodeError(f, f.trace_path, outcome)
            ELSE LET ctx == Merge(f.context, outcome.outputs)
                 IN [f EXCEPT !.trace_path = trace, !.context = ctx,
                              !.current_node_name = ResolveNext(self, node, ctx),
                              !.steps = f.steps + 1]
Iteration(self, f, outcome) ==
    LET node == f.current_node_name
        trace == Append(f.trace_path, node)
    IN IF ~HasAttr(self, node)
       THEN [f EXCEPT !.trace_path = trace, !.status = "undefined"]
       ELSE IF node \notin self.modules \/ outcome.fails
            THEN OnNodeError(f, trace, outcome)
            ELSE LET ctx == Merge(f.context, outcome.outputs)
                 IN [f EXCEPT !.trace_path = trace, !.context = ctx,
                              !.current_node_name = ResolveNext(self, node, ctx),
                              !.steps = f.steps + 1]

\* if steps >= self.max_steps: print("Max steps reached. Terminating.")
MaxStepsReported(self, f) == f.steps >= self.max_steps

\* context["_trace_path"] = trace_path; return dspy.Prediction(**context)
Prediction(f) ==
    Merge(f.context, [k \in {"_trace_path"} |-> PyList(f.trace_path)])

\* a whole call of forward, the i-th pass of the loop calling a module that
\* behaves as script[i]
RECURSIVE ForwardFrom(_, _, _)
ForwardFrom(self, f, script) ==
    IF ~Running(self, f) THEN f
    ELSE ForwardFrom(self, Iteration(self, f, script[Len(f.trace_path) + 1]), script)
Forward(self, kwargs, script) ==
    Prediction(ForwardFrom(self, InitialFrame(self, kwargs), script))

\* =========================================================================
\* optimizer.py, EvoOptimizer._evaluate_agent
\* =========================================================================
\* a float kept exactly, as numerator and denominator
Ratio(n, d) == [num |-> n, den |-> d]
RatioGE_strict(q, k) == q.num > k * q.den
RatioGE(q, k) == q.num >= k * q.den

\* main.py, the two metrics: str(gold.answer) in str(pred.answer). Reading
\* pred.answer of a prediction without that field raises; metric_func of case3
\* lets it escape, evaluation_metric catches it and answers False
MetricKinds == {"metric_func", "evaluation_metric"}
Metric(kind, ex, pred) ==
    IF "answer" \notin DOMAIN pred
    THEN IF kind = "metric_func" THEN "raise" ELSE "false"
    ELSE IF kind = "metric_func"
         THEN IF Contains(Str(ex.answer), Str(pred.answer)) THEN "true" ELSE "false"
         ELSE IF Contains(Strip(Str(ex.answer)), Strip(Str(pred.answer)))
              THEN "true" ELSE "false"

\* the body of the try for one example: pred = agent(**ex.inputs()), then the
\* metric; "passed", "failed" (with the case info) or "raised"
ExampleOutcome(self, ex, kind) ==
    LET pred == Forward(self, ex.inputs, ex.script)
        passed == Metric(kind, ex, pred)
    IN IF passed = "raise" THEN [kind |-> "raised", info |-> EmptyDict]
       ELSE IF passed = "true" THEN [kind |-> "passed", info |-> EmptyDict]
       ELSE [kind |-> "failed",
             info |-> [Input |-> ex.inputs, Expected |-> ex.answer,
                       Got |-> Get(pred, "answer", PyStr(<<"N", "/", "A">>)),
                       Path |-> pred["_trace_path"]]]

\* the for loop over the trainset: correct and bad_cases_log after example i..
RECURSIVE EvalLoop(_, _, _, _)
EvalLoop(outcomes, i, correct, bad_cases_log) ==
    IF i > Len(outcomes) THEN [correct |-> correct, bad_cases_log |-> bad_cases_log]
    ELSE IF outcomes[i].kind = "passed"
         THEN EvalLoop(outcomes, i + 1, correct + 1, bad_cases_log)
         ELSE EvalLoop(outcomes, i + 1, correct, Append(bad_cases_log, outcomes[i]))

\* score = (correct / total) * 100 if total > 0 else 0
ScoreOf_perOne(correct, total) == IF total > 0 THEN Ratio(correct, total) ELSE Ratio(0, 1)
ScoreOf(correct, total) == IF total > 0 THEN Ratio(correct * 100, total) ELSE Ratio(0, 1)

\* bad_cases_log[:3]
Top3 == 3
FirstN_lastN(s, n) == SubSeq(s, IF Len(s) < n THEN 1 ELSE Len(s) - n + 1, Len(s))
FirstN(s, n) == SubSeq(s, 1, IF Len(s) < n THEN Len(s) ELSE n)

\* _evaluate_agent once every example has its outcome: (score, diagnosis)
EvaluateOutcomes(outcomes) ==
    LET total == Len(outcomes)
        r == EvalLoop(outcomes, 1, 0, <<>>)
        score == ScoreOf(r.correct, total)
    IN [score |-> score,
        diagnosis |-> [Current_Score |-> score,
                       Failure_Count |-> Len(r.bad_cases_log),
                       Bad_Cases |-> FirstN(r.bad_cases_log, Top3)]]

\* _evaluate_agent(agent) with the graph agent as the runnable
EvaluateAgent(self, trainset, kind) ==
    EvaluateOutcomes([i \in 1..Len(trainset) |-> ExampleOutcome(self, trainset[i], kind)])

\* =========================================================================
\* optimizer.py, EvoOptimizer._run_inner_loop and _run_outer_loop
\* =========================================================================
\* the runnable GraphAgent(config) of a generation; compiled once
\* BootstrapFewShot.compile has returned it
Runnable(config, generation) == [cfg |-> config, gen |-> generation, compiled |-> FALSE]

\* _run_inner_loop: the compiled agent, or the original one if compile raises
RunInnerLoop_failGivesNone(a, compile_ok) ==
    IF compile_ok THEN [a EXCEPT !.compiled = TRUE] ELSE NoneVal
RunInnerLoop(a, compile_ok) == IF compile_ok THEN [a EXCEPT !.compiled = TRUE] ELSE a

\* the architect's reply as text: a sequence of tokens, a backtick, the word
\* json, a newline, other prose, or the JSON text of a value
Tok(c) == [ch |-> c]
JsonTok(v) == [json |-> v]
Backtick == Tok("backtick")
TagJson == Tok("json")
Newline == Tok("\n")
Prose == Tok("prose")

\* str.strip(chars)
StripChars(s, chars) ==
    LET keep == {i \in 1..Len(s) : s[i] \notin chars}
    IN IF keep = {} THEN <<>>
       ELSE LET lo == CHOOSE i \in keep : \A j \in keep : i <= j
                hi == CHOOSE i \in keep : \A j \in keep : j <= i
            IN SubSeq(s, lo, hi)

\* str.replace(pat, "")
RECURSIVE RemoveAll(_, _)
RemoveAll(s, pat) ==
    IF Len(s) < Len(pat) \/ pat = <<>> THEN s
    ELSE IF SubSeq(s, 1, Len(pat)) = pat
         THEN RemoveAll(SubSeq(s, Len(pat) + 1, Len(s)), pat)
         ELSE <<s[1]>> \o RemoveAll(Tail(s), pat)

\* replace("json", "") reaches into the JSON text too: the letters are removed
\* from the strings of the value (agent_id is the string kept as text here)
RemoveInValue(v) ==
    IF v = NoneVal THEN v
    ELSE [v EXCEPT !.agent_id = RemoveAll(@, <<"j", "s", "o", "n">>)]

\* raw_json.startswith(three backticks)
StartsWithFence(text) ==
    Len(text) >= 3 /\ \A i \in 1..3 : text[i] = Backtick

\* raw_json.strip(backtick).replace("json\n", "").replace("json", "")
StripFence(text) ==
    LET t1 == StripChars(text, {Backtick})
        t2 == RemoveAll(t1, <<TagJson, Newline>>)
        t3 == RemoveAll(t2, <<TagJson>>)
    IN [i \in 1..Len(t3) |->
          IF "json" \in DOMAIN t3[i] THEN JsonTok(RemoveInValue(t3[i].json)) ELSE t3[i]]

\* json.loads(raw_json): one JSON text, whitespace around it allowed
JsonLoads(text) ==
    LET t == StripChars(text, {Newline})
    IN IF Len(t) = 1 /\ "json" \in DOMAIN t[1]
       THEN [ok |-> TRUE, value |-> t[1].json]
       ELSE [ok |-> FALSE, value |-> NoneVal]

\* the try block of _run_outer_loop once the architect has replied:
\* clean, parse, validate; the except branches return None
ParseReply_unvalidated(text) ==
    LET raw_json == StripChars(text, {Newline})
        cleaned == IF StartsWithFence(raw_json) THEN StripFence(raw_json) ELSE raw_json
        loaded == JsonLoads(cleaned)
    IN IF ~loaded.ok THEN [config |-> NoneVal, error |-> "JSONDecodeError"]
       ELSE IF loaded.value = NoneVal THEN [config |-> NoneVal, error |-> "Exception"]
       ELSE [config |-> ParsedFields(loaded.value), error |-> ""]
ParseReply(text) ==
    LET raw_json == StripChars(text, {Newline})
        cleaned == IF StartsWithFence(raw_json) THEN StripFence(raw_json) ELSE raw_json
        loaded == JsonLoads(cleaned)
    IN IF ~loaded.ok THEN [config |-> NoneVal, error |-> "JSONDecodeError"]
       ELSE IF loaded.value = NoneVal THEN [config |-> NoneVal, error |-> "Exception"]
       ELSE LET made == AgentDNAConfig(loaded.value)
            IN IF made.ok THEN [config |-> made.config, error |-> ""]
               ELSE [config |-> NoneVal, error |-> "ValidationError"]

\* json.dumps(self.cur_agent_dna_config, ...): a dict as json.loads gave it is
\* serializable, an AgentDNAConfig instance is not (TypeError)
JsonDumpsOk(is_model) == ~is_model

\* _run_outer_loop: json.dumps of the current config runs before the try, so
\* its TypeError escapes; a failing architect call is caught and gives None
RunOuterLoop(dumps_ok, reply) ==
    IF ~dumps_ok THEN [raised |-> TRUE, config |-> NoneVal, error |-> "TypeError"]
    ELSE IF reply.raises THEN [raised |-> FALSE, config |-> NoneVal, error |-> "Exception"]
    ELSE LET r == ParseReply(reply.text)
         IN [raised |-> FALSE, config |-> r.config, error |-> r.error]

\* evolve, lines 189-193: self.history.append(record)
AppendHistory_overwrite(h, record) == <<record>>
AppendHistory(h, record) == Append(h, record)

\* evolve, lines 204-208: what follows a mutation that gave no config: break
OnMutationFailed_continue(generation) == [pc |-> "for", generation |-> generation + 1]
OnMutationFailed(generation) == [pc |-> "finish", generation |-> generation]

\* ---------------------------------------------------- engine inputs (samples)
MaxSteps == 3
MaxBranches == 2

TextYesPlease == <<"y","e","s"," ","p","l","e","a","s","e">>
TextNoPadded == <<" "," ","n","o","."," ">>
TextFailedToday == <<"t","e","s","t"," ","F","A","I","L","E","D"," ","t","o","d","a","y">>
TextMaybe == <<"m","a","y","b","e">>
KeyPASS == <<"P","A","S","S">>
KeyFAILED == <<"F","A","I","L","E","D">>
KeyFail == <<"f","a","i","l">>
KeyEmpty == <<>>

\* what a node module returns when it does not raise
OutputSamples ==
    {[decision |-> PyStr(TextYesPlease)],
     [decision |-> PyStr(TextNoPadded)],
     [answer |-> PyStr(<<"4">>), x |-> PyStr(<<"9">>)],
     EmptyDict}

KwargsSamples ==
    {[x |-> PyStr(<<"0">>)], [x |-> PyStr(<<"0">>), decision |-> PyStr(KeyNO)]}

BranchYesNo ==
    [type |-> "branch", source_var |-> "decision",
     branches |-> <<<<KeyYES, "b">>, <<KeyNO, "a">>>>, default |-> "end"]
BranchNoDefault ==
    [type |-> "branch", source_var |-> "decision", branches |-> <<<<KeyNO, "ghost">>>>]

RulesOfA == {[next |-> "a"], [next |-> "b"], [type |-> "sequence"], BranchYesNo, BranchNoDefault}
RulesOfB == {[next |-> "a"], [type |-> "sequence", next |-> "rules"], NoneVal}

RulesSamples ==
    {[n \in {"a", "b"} |-> IF n = "a" THEN ra ELSE rb] : ra \in RulesOfA, rb \in RulesOfB}
    \cup {[n \in {"a"} |-> ra] : ra \in RulesOfA}
    \cup {[n \in {"b"} |-> [next |-> "a"]]}

AgentSamples ==
    {[modules |-> {"a", "b"}, start_node |-> "a", rules |-> r, max_steps |-> m] :
        r \in RulesSamples, m \in 0..MaxSteps}
    \cup {[modules |-> {"a", "b"}, start_node |-> s, rules |-> [n \in {"a"} |-> [next |-> "a"]],
           max_steps |-> m] : s \in {"end", "ghost", "rules"}, m \in 0..MaxSteps}

\* branch rules and context values for the routing step
RouteKeys == {KeyYES, KeyNO, KeyPASS, KeyFAILED, KeyFail, KeyEmpty}
RouteBranches ==
    {br \in UNION {[1..n -> RouteKeys \X {"b", "c"}] : n \in 0..MaxBranches} :
        \A i, j \in 1..Len(br) : i < j => br[i][1] # br[j][1]}
RouteRules ==
    {[type |-> "branch", source_var |-> "decision", branches |-> br] : br \in RouteBranches}
    \cup {[type |-> "branch", source_var |-> "decision", branches |-> br, default |-> "a"] :
            br \in RouteBranches}
RouteContexts ==
    {[x |-> PyStr(<<"0">>)], [decision |-> NoneVal]}
    \cup {[decision |-> PyStr(t)] :
            t \in {TextYesPlease, TextNoPadded, TextFailedToday, TextMaybe, <<>>, <<" ">>}}

\* ------------------------------------------------- harness inputs (samples)
MaxExamples == 4

OutAnswer4 == [answer |-> PyStr(<<"4">>), x |-> PyStr(<<"9">>)]
OutAnswer5 == [answer |-> PyStr(<<" ", "5">>)]
OutDecision == [decision |-> PyStr(TextYesPlease)]
Ok(out) == [fails |-> FALSE, outputs |-> out]
Raises == [fails |-> TRUE, outputs |-> EmptyDict]

\* what the node modules do on an example, call by call
ScriptSamples ==
    {<<Ok(OutAnswer4), Ok(EmptyDict)>>,
     <<Ok(OutAnswer4), Raises>>,
     <<Raises, Raises>>,
     <<Ok(OutDecision), Ok(EmptyDict)>>,
     <<Ok(OutAnswer5), Ok(OutDecision)>>}

ExampleSamples ==
    {[inputs |-> [question |-> PyStr(<<"2", "+", "2">>)], answer |-> PyStr(<<"4">>),
      script |-> sc] : sc \in ScriptSamples}

TrainsetSamples == UNION {[1..n -> ExampleSamples] : n \in 0..MaxExamples}

\* the runnables evaluated: a -> b -> end, and a alone
RunnableSamples ==
    {[modules |-> {"a", "b"}, start_node |-> "a", max_steps |-> 2,
      rules |-> [n \in {"a", "b"} |-> IF n = "a" THEN [next |-> "b"] ELSE [next |-> "end"]]],
     [modules |-> {"a"}, start_node |-> "a", max_steps |-> 2,
      rules |-> [n \in {"a"} |-> [next |-> "end"]]]}

\* --------------------------------------------- controller inputs (samples)
MaxGenerations == 3

\* the config evolve starts from (main.py validates it before it builds the
\* optimizer) and the raw configs an architect may propose
SeedRaw ==
    [agent_id |-> <<"m">>, start_node |-> "a",
     nodes |-> [n \in {"a"} |-> RawNode(SigGood)],
     flow |-> <<<<"a", [next |-> "end"]>>>>]
ProposalTwoNodes ==
    [agent_id |-> <<"m", "2">>, start_node |-> "a",
     nodes |-> [n \in {"a", "b"} |-> RawNode(SigGood)],
     flow |-> <<<<"a", [next |-> "b"]>>>>]
ProposalJsonId ==
    [agent_id |-> <<"j", "s", "o", "n", "3">>, start_node |-> "a",
     nodes |-> [n \in {"a"} |-> RawNode(SigGood)],
     flow |-> <<>>]
ProposalDangling ==
    [agent_id |-> <<"m", "4">>, start_node |-> "a",
     nodes |-> [n \in {"a"} |-> RawNode(SigGood)],
     flow |-> <<<<"a", [next |-> "ghost"]>>>>]

Fenced(body) ==
    <<Backtick, Backtick, Backtick, TagJson, Newline>> \o body
    \o <<Newline, Backtick, Backtick, Backtick>>

\* what self.meta_architect(...) does: raise, or reply with a text
ReplySamples ==
    {[raises |-> TRUE, text |-> <<>>],
     [raises |-> FALSE, text |-> Fenced(<<JsonTok(ProposalTwoNodes)>>)],
     [raises |-> FALSE, text |-> Fenced(<<JsonTok(ProposalJsonId)>>)],
     [raises |-> FALSE, text |-> <<Newline, JsonTok(ProposalJsonId), Newline>>],
     [raises |-> FALSE, text |-> <<JsonTok(ProposalDangling)>>],
     [raises |-> FALSE, text |-> <<Prose, Newline>> \o Fenced(<<JsonTok(ProposalTwoNodes)>>)],
     [raises |-> FALSE, text |-> <<JsonTok(NoneVal)>>],
     [raises |-> FALSE, text |-> <<>>]}

ThresholdSamples == {0, 50, 101}
TrainSizeSamples == {0, 2}

\* the outcome of one example of the trainset, as _evaluate_agent sees it
CaseOutcomes ==
    {[kind |-> "passed", info |-> EmptyDict], [kind |-> "failed", info |-> EmptyDict]}

\* =========================================================================
\* state
\* =========================================================================
VARIABLES
    raw_config,        \* the raw structured data handed to AgentDNAConfig(**config)
    construction,      \* what the construction gave: NoneVal before it is attempted
    declarative,       \* the constructed config serialized, NoneVal before
    reparsed,          \* what constructing from the serialized form gave, NoneVal before
    route_rule,        \* routing step: the rule of the node that just ran
    route_context,     \* routing step: the context after the node's outputs
    route_next,        \* routing step: the node resolved, "" before the step
    agent,             \* forward: self (modules, start_node, rules, max_steps)
    kwargs,            \* forward: the caller's inputs
    context,           \* forward: context
    current_node_name, \* forward: current_node_name
    steps,             \* forward: steps
    trace_path,        \* forward: trace_path
    status,            \* forward: "loop", or the break taken
    returned,          \* forward: the call has returned
    max_steps_reported, \* forward: "Max steps reached" was printed before the return
    prediction,        \* forward: the Prediction returned, EmptyDict before
    invocations,       \* history: number of module calls of the run
    outputs_log,       \* history: the outputs of the calls that returned, in order
    runnable,          \* _evaluate_agent: agent
    trainset,          \* _evaluate_agent: self.trainset
    metric_func,       \* _evaluate_agent: self.metric_func
    evaluation,        \* _evaluate_agent: (score, diagnosis), NoneVal before
    cur_agent_dna_config, \* evolve: self.cur_agent_dna_config
    cur_is_model,      \* evolve: self.cur_agent_dna_config is an AgentDNAConfig
                       \* instance (FALSE: a plain dict of the same content)
    max_generations,   \* evolve: self.max_generations
    score_threshold,   \* evolve: self.score_threshold
    train_size,        \* evolve: len(self.trainset)
    generation,        \* evolve: generation
    gen_agent,         \* evolve: agent, NoneVal while unbound
    optimized_agent,   \* evolve: optimized_agent
    score,             \* evolve: score, NoneVal while unbound
    bad_cases,         \* evolve: bad_cases, NoneVal while unbound
    history,           \* evolve: self.history
    evo_pc,            \* evolve: the statement to run next, "" outside evolve
    evo_result,        \* evolve: the pair returned, NoneVal before
    initial_config,    \* history: the config evolve was started with
    mutation_log,      \* history: the calls of _run_outer_loop and what each gave
    events,            \* history: the steps taken, each with its generation
    inner_log,         \* history: the calls of _run_inner_loop: generation,
                       \* the agent passed, whether compile returned
    evaluated,         \* history: the agents passed to _evaluate_agent, in order
    par_agent,         \* interleaved calls of forward: self, shared by the calls
    par_inputs,        \* interleaved calls: the caller's input mapping of each call
    par_frames,        \* interleaved calls: the locals of each call
    par_outcomes,      \* history: what the module calls of each call gave, in order
    par_results,       \* interleaved calls: the Prediction each call returned
    best_config,       \* case3: best_config, the config evolve returned
    artifact,          \* case3: the content of optimized_agent.json, NoneVal before
    writes,            \* history: how often the file was written
    loaded,            \* what loading the file as the input is loaded gave
    reply_body,        \* _run_outer_loop: the JSON text T the architect wrote
    reply_fence,       \* the markup the architect put around T
    from_bare,         \* what the reply T alone is turned into
    from_fenced        \* what the reply T inside the markup is turned into

cfgVars == <<raw_config, construction, declarative, reparsed>>
routeVars == <<route_rule, route_context, route_next>>
runVars == <<agent, kwargs, context, current_node_name, steps, trace_path, status,
             returned, max_steps_reported, prediction, invocations, outputs_log>>
evalVars == <<runnable, trainset, metric_func, evaluation>>
evoVars == <<cur_agent_dna_config, cur_is_model, max_generations, score_threshold, train_size,
             generation, gen_agent, optimized_agent, score, bad_cases, history, evo_pc,
             evo_result, initial_config, mutation_log, events, inner_log, evaluated>>
parVars == <<par_agent, par_inputs, par_frames, par_outcomes, par_results>>
artVars == <<best_config, artifact, writes, loaded>>
propVars == <<reply_body, reply_fence, from_bare, from_fenced>>
vars == <<cfgVars, routeVars, runVars, evalVars, evoVars, parVars, artVars, propVars>>

IdleConfig ==
    raw_config = NoneVal /\ construction = NoneVal /\ declarative = NoneVal /\ reparsed = NoneVal
IdleRoute == route_rule = NoneVal /\ route_context = EmptyDict /\ route_next = ""
IdleRun ==
    /\ agent = NoneVal /\ kwargs = EmptyDict /\ context = EmptyDict
    /\ current_node_name = "" /\ steps = 0 /\ trace_path = <<>> /\ status = "idle"
    /\ returned = FALSE /\ max_steps_reported = FALSE
    /\ prediction = EmptyDict /\ invocations = 0 /\ outputs_log = <<>>

IdleEval ==
    runnable = NoneVal /\ trainset = <<>> /\ metric_func = "" /\ evaluation = NoneVal

IdleRuns ==
    /\ par_agent = NoneVal /\ par_inputs = <<>> /\ par_frames = <<>>
    /\ par_outcomes = <<>> /\ par_results = <<>>

IdleArtifact ==
    best_config = NoneVal /\ artifact = NoneVal /\ writes = 0 /\ loaded = NoneVal

IdlePropose ==
    reply_body = NoneVal /\ reply_fence = "" /\ from_bare = NoneVal /\ from_fenced = NoneVal

IdleEvolve ==
    /\ cur_agent_dna_config = NoneVal /\ cur_is_model = FALSE
    /\ max_generations = 0 /\ score_threshold = 0
    /\ train_size = 0 /\ generation = 0 /\ gen_agent = NoneVal
    /\ optimized_agent = NoneVal /\ score = NoneVal /\ bad_cases = NoneVal
    /\ history = <<>> /\ evo_pc = "" /\ evo_result = NoneVal
    /\ initial_config = NoneVal /\ mutation_log = <<>> /\ events = <<>>
    /\ inner_log = <<>> /\ evaluated = <<>>

\* ------------------------------------------------ construction of a config
InitConfig ==
    /\ raw_config \in RawConfigSamples
    /\ construction = NoneVal
    /\ declarative = NoneVal
    /\ reparsed = NoneVal
    /\ IdleRoute /\ IdleRun /\ IdleEval /\ IdleEvolve /\ IdleRuns /\ IdleArtifact /\ IdlePropose

\* agent_dna_config = AgentDNAConfig(**config)
Construct ==
    /\ construction = NoneVal
    /\ construction' = AgentDNAConfig(raw_config)
    /\ UNCHANGED <<raw_config, declarative, reparsed, routeVars, runVars, evalVars, evoVars, parVars, artVars, propVars>>

\* the constructed config is serialized and the result constructed again
RoundTrip ==
    /\ construction # NoneVal
    /\ construction.ok
    /\ reparsed = NoneVal
    /\ declarative' = model_dump(construction.config)
    /\ reparsed' = AgentDNAConfig(declarative')
    /\ UNCHANGED <<raw_config, construction, routeVars, runVars, evalVars, evoVars, parVars, artVars, propVars>>

NextConfig == Construct \/ RoundTrip

SpecConfig == InitConfig /\ [][NextConfig]_vars

\* --------------------------------------------- the routing step of forward
InitRoute ==
    /\ route_rule \in RouteRules
    /\ route_context \in RouteContexts
    /\ route_next = ""
    /\ IdleConfig /\ IdleRun /\ IdleEval /\ IdleEvolve /\ IdleRuns /\ IdleArtifact /\ IdlePropose

\* the routing logic applied after node "a" ran
Route ==
    /\ route_next = ""
    /\ route_next' = ResolveNext([rules |-> [n \in {"a"} |-> route_rule]], "a", route_context)
    /\ UNCHANGED <<route_rule, route_context, cfgVars, runVars, evalVars, evoVars, parVars, artVars, propVars>>

NextRoute == Route

SpecRoute == InitRoute /\ [][NextRoute]_vars

\* -------------------------------------------------- one call of forward
Frame ==
    [context |-> context, current_node_name |-> current_node_name, steps |-> steps,
     trace_path |-> trace_path, status |-> status]

SetFrame(f) ==
    /\ context' = f.context
    /\ current_node_name' = f.current_node_name
    /\ steps' = f.steps
    /\ trace_path' = f.trace_path
    /\ status' = f.status

InitRun ==
    /\ agent \in AgentSamples
    /\ kwargs \in KwargsSamples
    /\ context = InitialFrame(agent, kwargs).context
    /\ current_node_name = InitialFrame(agent, kwargs).current_node_name
    /\ steps = 0 /\ trace_path = <<>> /\ status = "loop" /\ returned = FALSE
    /\ max_steps_reported = FALSE
    /\ prediction = EmptyDict /\ invocations = 0 /\ outputs_log = <<>>
    /\ IdleConfig /\ IdleRoute /\ IdleEval /\ IdleEvolve /\ IdleRuns /\ IdleArtifact /\ IdlePropose

NoOutcome == [fails |-> FALSE, outputs |-> EmptyDict]

\* the loop body when the current node is no attribute of the agent: break
NodeUndefined ==
    /\ Running(agent, Frame)
    /\ ~HasAttr(agent, current_node_name)
    /\ SetFrame(Iteration(agent, Frame, NoOutcome))
    /\ UNCHANGED <<agent, kwargs, returned, max_steps_reported, prediction, invocations,
                   outputs_log,
                   cfgVars, routeVars, evalVars, evoVars, parVars, artVars, propVars>>

\* the loop body when calling the node raises: break
NodeFails ==
    /\ Running(agent, Frame)
    /\ HasAttr(agent, current_node_name)
    /\ \E out \in OutputSamples :
          SetFrame(Iteration(agent, Frame, [fails |-> TRUE, outputs |-> out]))
    /\ invocations' = invocations + (IF current_node_name \in agent.modules THEN 1 ELSE 0)
    /\ UNCHANGED <<agent, kwargs, returned, max_steps_reported, prediction, outputs_log,
                   cfgVars, routeVars, evalVars, evoVars, parVars, artVars, propVars>>

\* the loop body when the node returns: merge, route, steps += 1
NodeSucceeds ==
    /\ Running(agent, Frame)
    /\ current_node_name \in agent.modules
    /\ \E out \in OutputSamples :
          /\ SetFrame(Iteration(agent, Frame, [fails |-> FALSE, outputs |-> out]))
          /\ outputs_log' = Append(outputs_log, out)
    /\ invocations' = invocations + 1
    /\ UNCHANGED <<agent, kwargs, returned, max_steps_reported, prediction, cfgVars,
                   routeVars, evalVars, evoVars, parVars, artVars, propVars>>

\* after the loop: the trace is stored in the context and the Prediction returned
Return ==
    /\ ~returned
    /\ ~Running(agent, Frame)
    /\ prediction' = Prediction(Frame)
    /\ max_steps_reported' = MaxStepsReported(agent, Frame)
    /\ returned' = TRUE
    /\ UNCHANGED <<agent, kwargs, context, current_node_name, steps, trace_path, status,
                   invocations, outputs_log, cfgVars, routeVars, evalVars, evoVars, parVars, artVars, propVars>>

NextRun == NodeUndefined \/ NodeFails \/ NodeSucceeds \/ Return

\* forward is sequential code: a step that can be taken is taken
SpecRun == InitRun /\ [][NextRun]_vars /\ WF_vars(NextRun)

\* ------------------------------------------------ one call of _evaluate_agent
InitEval ==
    /\ runnable \in RunnableSamples
    /\ trainset \in TrainsetSamples
    /\ metric_func \in MetricKinds
    /\ evaluation = NoneVal
    /\ IdleConfig /\ IdleRoute /\ IdleRun /\ IdleEvolve /\ IdleRuns /\ IdleArtifact /\ IdlePropose

\* score, bad_cases = self._evaluate_agent(optimized_agent)
Evaluate ==
    /\ evaluation = NoneVal
    /\ evaluation' = EvaluateAgent(runnable, trainset, metric_func)
    /\ UNCHANGED <<runnable, trainset, metric_func, cfgVars, routeVars, runVars, evoVars, parVars, artVars, propVars>>

NextEval == Evaluate

SpecEval == InitEval /\ [][NextEval]_vars

\* ------------------------------------------------------ one call of evolve
InitEvolve ==
    /\ initial_config = AgentDNAConfig(SeedRaw).config
    /\ cur_agent_dna_config = initial_config
    /\ cur_is_model \in BOOLEAN
    /\ max_generations \in 0..MaxGenerations
    /\ score_threshold \in ThresholdSamples
    /\ train_size \in TrainSizeSamples
    /\ generation = 0
    /\ gen_agent = NoneVal
    /\ optimized_agent = NoneVal
    /\ score = NoneVal
    /\ bad_cases = NoneVal
    /\ history = <<>>
    /\ evo_pc = "for"
    /\ evo_result = NoneVal
    /\ mutation_log = <<>>
    /\ events = <<>>
    /\ inner_log = <<>>
    /\ evaluated = <<>>
    /\ IdleConfig /\ IdleRoute /\ IdleRun /\ IdleEval /\ IdleRuns /\ IdleArtifact /\ IdlePropose

Event(step) == Append(events, [gen |-> generation, step |-> step])

evoLocals == <<gen_agent, optimized_agent, score, bad_cases, history, evo_result>>
evoInputs == <<initial_config, max_generations, score_threshold, train_size>>
evoConfig == <<cur_agent_dna_config, cur_is_model>>
evoOthers == <<cfgVars, routeVars, runVars, evalVars, parVars, artVars, propVars>>

\* for generation in range(self.max_generations): the next pass starts
ForNext ==
    /\ evo_pc = "for"
    /\ generation < max_generations
    /\ evo_pc' = "stage1"
    /\ UNCHANGED <<evoConfig, generation, evoLocals, mutation_log, events,
                   evoInputs, inner_log, evaluated, evoOthers>>

\* for generation in range(self.max_generations): the range is exhausted
ForDone ==
    /\ evo_pc = "for"
    /\ generation >= max_generations
    /\ evo_pc' = "finish"
    /\ UNCHANGED <<evoConfig, generation, evoLocals, mutation_log, events,
                   evoInputs, inner_log, evaluated, evoOthers>>

\* agent = GraphAgent(self.cur_agent_dna_config) returns the runnable
BuildOk ==
    /\ evo_pc = "stage1"
    /\ gen_agent' = Runnable(cur_agent_dna_config, generation)
    /\ evo_pc' = "stage2"
    /\ events' = Event("build")
    /\ UNCHANGED <<evoConfig, generation, optimized_agent, score, bad_cases,
                   history, evo_result, mutation_log, evoInputs, inner_log, evaluated, evoOthers>>

\* GraphAgent(...) raises ValidationError: logged, break
BuildInvalid ==
    /\ evo_pc = "stage1"
    /\ evo_pc' = "finish"
    /\ events' = Event("build")
    /\ UNCHANGED <<evoConfig, generation, evoLocals, mutation_log,
                   evoInputs, inner_log, evaluated, evoOthers>>

\* GraphAgent(...) raises anything else: no except clause takes it, it leaves evolve
BuildRaises ==
    /\ evo_pc = "stage1"
    /\ evo_pc' = "raised"
    /\ events' = Event("build")
    /\ UNCHANGED <<evoConfig, generation, evoLocals, mutation_log,
                   evoInputs, inner_log, evaluated, evoOthers>>

\* optimized_agent = self._run_inner_loop(agent)
InnerLoop ==
    /\ evo_pc = "stage2"
    /\ \E compile_ok \in BOOLEAN :
          /\ optimized_agent' = RunInnerLoop(gen_agent, compile_ok)
          /\ inner_log' = Append(inner_log, [gen |-> generation, agent_in |-> gen_agent,
                                             ok |-> compile_ok])
    /\ evo_pc' = "stage3"
    /\ events' = Event("optimize")
    /\ UNCHANGED <<evoConfig, generation, gen_agent, score, bad_cases,
                   history, evo_result, mutation_log, evoInputs, evaluated, evoOthers>>

\* score, bad_cases = self._evaluate_agent(optimized_agent)
EvaluateGeneration ==
    /\ evo_pc = "stage3"
    /\ \E outcomes \in [1..train_size -> CaseOutcomes] :
          LET e == EvaluateOutcomes(outcomes)
          IN score' = e.score /\ bad_cases' = e.diagnosis
    /\ evaluated' = Append(evaluated, optimized_agent)
    /\ evo_pc' = "record"
    /\ events' = Event("evaluate")
    /\ UNCHANGED <<evoConfig, generation, gen_agent, optimized_agent,
                   history, evo_result, mutation_log, evoInputs, inner_log, evoOthers>>

\* self.history.append({"gen": generation, "config": copy, "score": score})
RecordHistory ==
    /\ evo_pc = "record"
    /\ history' = AppendHistory(history, [gen |-> generation,
                                      config |-> cur_agent_dna_config, score |-> score])
    /\ evo_pc' = "decide"
    /\ events' = Event("history")
    /\ UNCHANGED <<evoConfig, generation, gen_agent, optimized_agent, score,
                   bad_cases, evo_result, mutation_log, evoInputs, inner_log, evaluated, evoOthers>>

\* if score >= self.score_threshold: return optimized_agent, config
ThresholdReached ==
    /\ evo_pc = "decide"
    /\ RatioGE(score, score_threshold)
    /\ evo_result' = [agent |-> optimized_agent, config |-> cur_agent_dna_config]
    /\ evo_pc' = "returned"
    /\ events' = Event("decide")
    /\ UNCHANGED <<evoConfig, generation, gen_agent, optimized_agent, score,
                   bad_cases, history, mutation_log, evoInputs, inner_log, evaluated, evoOthers>>

\* score below the threshold and generation < self.max_generations - 1
GoMutate ==
    /\ evo_pc = "decide"
    /\ ~RatioGE(score, score_threshold)
    /\ generation < max_generations - 1
    /\ evo_pc' = "stage4"
    /\ events' = Event("decide")
    /\ UNCHANGED <<evoConfig, generation, evoLocals, mutation_log,
                   evoInputs, inner_log, evaluated, evoOthers>>

\* score below the threshold in the last generation: no mutation, next pass
SkipMutate ==
    /\ evo_pc = "decide"
    /\ ~RatioGE(score, score_threshold)
    /\ generation >= max_generations - 1
    /\ generation' = generation + 1
    /\ evo_pc' = "for"
    /\ events' = Event("decide")
    /\ UNCHANGED <<evoConfig, evoLocals, mutation_log, evoInputs, inner_log, evaluated, evoOthers>>

Logged(outcome, r) ==
    Append(mutation_log, [gen |-> generation, outcome |-> outcome, error |-> r.error,
                          returned |-> r.config,
                          config_before |-> cur_agent_dna_config,
                          agent_before |-> optimized_agent])

\* new_config = self._run_outer_loop(bad_cases) gives a config: it becomes
\* the current one
MutateAccepted ==
    /\ evo_pc = "stage4"
    /\ \E reply \in ReplySamples :
          LET r == RunOuterLoop(JsonDumpsOk(cur_is_model), reply)
          IN /\ ~r.raised /\ r.config # NoneVal
             /\ cur_agent_dna_config' = r.config
             /\ cur_is_model' = TRUE
             /\ mutation_log' = Logged("accepted", r)
    /\ generation' = generation + 1
    /\ evo_pc' = "for"
    /\ events' = Event("mutate")
    /\ UNCHANGED <<evoLocals, evoInputs, inner_log, evaluated, evoOthers>>

\* new_config is None: break
MutateRejected ==
    /\ evo_pc = "stage4"
    /\ \E reply \in ReplySamples :
          LET r == RunOuterLoop(JsonDumpsOk(cur_is_model), reply)
          IN /\ ~r.raised /\ r.config = NoneVal
             /\ mutation_log' = Logged("rejected", r)
    /\ generation' = OnMutationFailed(generation).generation
    /\ evo_pc' = OnMutationFailed(generation).pc
    /\ events' = Event("mutate")
    /\ UNCHANGED <<evoConfig, evoLocals, evoInputs, inner_log, evaluated, evoOthers>>

\* _run_outer_loop raises at json.dumps: the exception leaves evolve
MutateRaises ==
    /\ evo_pc = "stage4"
    /\ \E reply \in ReplySamples :
          LET r == RunOuterLoop(JsonDumpsOk(cur_is_model), reply)
          IN /\ r.raised
             /\ mutation_log' = Logged("raised", r)
    /\ evo_pc' = "raised"
    /\ events' = Event("mutate")
    /\ UNCHANGED <<evoConfig, generation, evoLocals, evoInputs, inner_log, evaluated, evoOthers>>

\* after the loop: return optimized_agent, self.cur_agent_dna_config
Finish ==
    /\ evo_pc = "finish"
    /\ evo_result' = [agent |-> optimized_agent, config |-> cur_agent_dna_config]
    /\ evo_pc' = "returned"
    /\ UNCHANGED <<evoConfig, generation, gen_agent, optimized_agent, score,
                   bad_cases, history, mutation_log, events, evoInputs, inner_log,
                   evaluated, evoOthers>>

NextEvolve ==
    \/ ForNext \/ ForDone \/ BuildOk \/ BuildInvalid \/ BuildRaises \/ InnerLoop
    \/ EvaluateGeneration \/ RecordHistory \/ ThresholdReached \/ GoMutate \/ SkipMutate
    \/ MutateAccepted \/ MutateRejected \/ MutateRaises \/ Finish

\* evolve is sequential code: a step that can be taken is taken
SpecEvolve == InitEvolve /\ [][NextEvolve]_vars /\ WF_vars(NextEvolve)

\* =========================================================================
\* claims
\* =========================================================================
\* "->" occurs in the signature
HasArrow(sig) == \E i \in 1..(Len(sig) - 1) : sig[i] = "-" /\ sig[i + 1] = ">"

\* the targets a raw flow entry names once it is read as a branch or a sequence rule
RawTargets(rule) ==
    IF "type" \in DOMAIN rule /\ rule.type = "branch"
       /\ {"source_var", "branches"} \subseteq DOMAIN rule
    THEN {rule.branches[i][2] : i \in 1..Len(rule.branches)}
         \cup {IF "default" \in DOMAIN rule THEN rule.default ELSE "end"}
    ELSE IF "next" \in DOMAIN rule THEN {rule.next} ELSE {}

\* start_node and every flow target are a defined node or "end"
GraphResolves(raw) ==
    /\ raw.start_node \in DOMAIN raw.nodes \cup {"end"}
    /\ \A i \in 1..Len(raw.flow) :
          RawTargets(raw.flow[i][2]) \subseteq DOMAIN raw.nodes \cup {"end"}

\* every field has a value its declared type admits
FieldsWellFormed(raw) ==
    /\ \A n \in DOMAIN raw.nodes :
          HasArrow(raw.nodes[n].signature) /\ raw.nodes[n].type \in ModuleTypes
    /\ \A i \in 1..Len(raw.flow) :
          \/ "next" \in DOMAIN raw.flow[i][2]
          \/ /\ {"type", "source_var", "branches"} \subseteq DOMAIN raw.flow[i][2]
             /\ raw.flow[i][2].type = "branch"

Constructed == construction # NoneVal

\* C5 as stated: construction succeeds iff start_node and every flow target
\* is a defined node or "end".
C5_Original == Constructed => (construction.ok <=> GraphResolves(raw_config))

\* C5, amended: for raw data whose fields have their declared types, construction
\* succeeds iff every node's signature contains "->" and start_node and every
\* flow target is a defined node or "end"; otherwise it fails with a
\* validation error that names at least one violation and yields no config.
C5_ConstructionIff ==
    Constructed =>
        /\ construction.ok <=> (FieldsWellFormed(raw_config) /\ GraphResolves(raw_config))
        /\ construction.ok => construction.errors = {} /\ construction.config # NoneVal
        /\ ~construction.ok => construction.errors # {} /\ construction.config = NoneVal

\* C5 witness: a config with a sequence rule and a branch rule that omits its
\* default was constructed
C5_Witness ==
    /\ Constructed /\ construction.ok
    /\ \E i, j \in 1..Len(raw_config.flow) :
          /\ "next" \in DOMAIN raw_config.flow[i][2]
          /\ "branches" \in DOMAIN raw_config.flow[j][2]
          /\ raw_config.flow[j][2].branches # <<>>
          /\ "default" \notin DOMAIN raw_config.flow[j][2]

\* ---------------------------------------------------------------- C1
\* C1: whatever the configuration (pure cycles included), the inputs, the
\* behaviour of the node modules and max_steps >= 0, a run of forward calls
\* node modules at most max_steps times, and the run returns.
C1_StepBound == [](invocations <= agent.max_steps) /\ <>returned

\* C1 witness: a run over the pure cycle a -> a used its whole step budget
C1_Witness ==
    /\ returned /\ agent.start_node = "a"
    /\ "a" \in DOMAIN agent.rules /\ agent.rules["a"] = [next |-> "a"]
    /\ agent.max_steps = MaxSteps /\ invocations = MaxSteps

\* ---------------------------------------------------------------- C6
\* key occurs in text, position by position
OccursIn(key, text) ==
    \E k \in 0..(Len(text) - Len(key)) : \A j \in 1..Len(key) : text[k + j] = key[j]

\* the value the branch rule consults: trimmed and upper-cased, empty if absent
RouteValue ==
    IF "decision" \in DOMAIN route_context
    THEN Upper(Strip(Str(route_context["decision"])))
    ELSE <<>>

RouteHits ==
    {i \in 1..Len(route_rule.branches) :
        OccursIn(Upper(route_rule.branches[i][1]), RouteValue)}

\* C6: a branch rule routes to the target of the first key, in insertion order,
\* whose upper-cased form is a substring of the trimmed, upper-cased value of
\* context[source_var] (empty when absent), and to the default ("end" when none
\* is given) if no key matches.
C6_BranchRouting ==
    route_next # "" =>
        IF RouteHits # {}
        THEN route_next = route_rule.branches[CHOOSE i \in RouteHits :
                                                 \A j \in RouteHits : i <= j][2]
        ELSE route_next = (IF "default" \in DOMAIN route_rule THEN route_rule.default
                           ELSE "end")

\* C6 witness: {PASS: b, FAILED: c} with "test FAILED today" routed to c
C6_Witness ==
    /\ route_next = "c"
    /\ route_rule.branches = <<<<KeyPASS, "b">>, <<KeyFAILED, "c">>>>
    /\ route_context = [decision |-> PyStr(TextFailedToday)]

\* ---------------------------------------------------------------- C7
\* the inputs overwritten by the logged outputs, in order
Accumulated ==
    LET keys == DOMAIN kwargs \cup UNION {DOMAIN outputs_log[i] : i \in 1..Len(outputs_log)}
        last(k) == CHOOSE i \in 1..Len(outputs_log) :
                      /\ k \in DOMAIN outputs_log[i]
                      /\ \A j \in (i + 1)..Len(outputs_log) : k \notin DOMAIN outputs_log[j]
    IN [k \in keys |->
          IF \E i \in 1..Len(outputs_log) : k \in DOMAIN outputs_log[i]
          THEN outputs_log[last(k)][k] ELSE kwargs[k]]

\* C7: when calling a node raises, the run stops without raising: the failing
\* node is the last trace entry, the context is the inputs plus the outputs
\* of the earlier calls and nothing of the failing one, no node is called
\* afterwards, and forward returns that context with the trace.
C7_FailSoft ==
    status = "exec_error" =>
        /\ trace_path # <<>> /\ trace_path[Len(trace_path)] = current_node_name
        /\ Len(trace_path) = Len(outputs_log) + 1
        /\ invocations <= Len(outputs_log) + 1
        /\ context = Accumulated
        /\ ~returned => ENABLED Return
        /\ returned =>
              prediction = [k \in DOMAIN Accumulated \cup {"_trace_path"} |->
                              IF k = "_trace_path" THEN PyList(trace_path)
                              ELSE Accumulated[k]]

\* C7 witness: the second call of a run raised and the run returned
C7_Witness ==
    /\ status = "exec_error" /\ returned
    /\ Len(outputs_log) = 1 /\ invocations = 2
    /\ "answer" \in DOMAIN context

\* ---------------------------------------------------------------- C8
\* how the run of example i ended: "loop" (the loop condition failed),
\* "exec_error" or "undefined"
RunStatus(i) ==
    ForwardFrom(runnable, InitialFrame(runnable, trainset[i].inputs), trainset[i].script).status

\* C8: an example whose run ended with a node-execution failure is a failing
\* case: it is not counted as correct and it is in the failure count.
C8_ExecErrorFails ==
    evaluation # NoneVal =>
        LET failedRuns == {i \in 1..Len(trainset) : RunStatus(i) = "exec_error"}
        IN /\ evaluation.score.num * Len(trainset)
                <= 100 * (Len(trainset) - Cardinality(failedRuns)) * evaluation.score.den
           /\ evaluation.diagnosis.Failure_Count >= Cardinality(failedRuns)

\* ---------------------------------------------------------------- C9
\* the examples on which the call of the agent returned and the metric said true
MetricTrue ==
    {i \in 1..Len(trainset) :
        Metric(metric_func, trainset[i],
               Forward(runnable, trainset[i].inputs, trainset[i].script)) = "true"}

RuleTargets(rule) ==
    IF rule.kind = "sequence" THEN {rule.next}
    ELSE {rule.branches[i][2] : i \in 1..Len(rule.branches)} \cup {rule.default}

\* a config object that satisfies what validation demands
PassedValidation(cfg) ==
    /\ cfg # NoneVal
    /\ cfg.start_node \in DOMAIN cfg.nodes \cup {"end"}
    /\ \A n \in DOMAIN cfg.nodes :
          HasArrow(cfg.nodes[n].signature) /\ cfg.nodes[n].type \in ModuleTypes
    /\ \A i \in 1..Len(cfg.flow) :
          RuleTargets(cfg.flow[i][2]) \subseteq DOMAIN cfg.nodes \cup {"end"}

\* C2: evolve never raises, and the pair it returns holds an actual runnable
\* (not None) and a config that passed validation.
C2_UsablePair ==
    /\ evo_pc # "raised"
    /\ evo_pc = "returned" =>
          /\ evo_result.agent # NoneVal
          /\ PassedValidation(evo_result.config)

\* ---------------------------------------------------------------- C3
LastMutation == mutation_log[Len(mutation_log)]

\* C3: the active configuration is the initial validated config or the value
\* returned by a successful, fully validated mutation; after a failed mutation
\* the active configuration and the current runnable are what they were before
\* the mutation was attempted.
C3_ActiveConfig ==
    evo_pc # "" =>
        /\ PassedValidation(cur_agent_dna_config)
        /\ \/ cur_agent_dna_config = initial_config
           \/ \E i \in 1..Len(mutation_log) :
                 /\ mutation_log[i].outcome = "accepted"
                 /\ mutation_log[i].returned = cur_agent_dna_config
        /\ (mutation_log # <<>> /\ LastMutation.outcome # "accepted") =>
              /\ cur_agent_dna_config = LastMutation.config_before
              /\ optimized_agent = LastMutation.agent_before

\* C3 witness: a mutation was accepted, the next one failed, and the accepted
\* config is still the active one
C3_Witness ==
    /\ Len(mutation_log) = 2
    /\ mutation_log[1].outcome = "accepted"
    /\ mutation_log[2].outcome # "accepted"
    /\ cur_agent_dna_config = mutation_log[1].returned
    /\ cur_agent_dna_config # initial_config

\* ---------------------------------------------------------------- C4
\* what holds once the mutator has failed in generation N
HaltedAfter(m) ==
    /\ m = LastMutation
    /\ events[Len(events)] = [gen |-> m.gen, step |-> "mutate"]
    /\ generation = m.gen
    /\ evo_pc \in {"finish", "returned"}
    /\ evo_pc = "returned" =>
          /\ evo_result = [agent |-> m.agent_before, config |-> m.config_before]
          /\ m.agent_before # NoneVal
          /\ m.agent_before.gen = m.gen
          /\ m.agent_before.cfg = m.config_before

\* C4: when the mutator fails in generation N, no later step of any
\* generation is taken and evolve returns the (runnable, config) pair of
\* generation N instead of raising.
C4_HaltsAfterFailedMutation ==
    \A i \in 1..Len(mutation_log) :
        mutation_log[i].outcome # "accepted" => HaltedAfter(mutation_log[i])

\* ---------------------------------------------------------------- C10
\* C10: every call of the mutation step gives a fully validated new config or
\* a failure that carries no config; no exception escapes to evolve.
C10_TwoOutcomes ==
    \A i \in 1..Len(mutation_log) :
        \/ /\ mutation_log[i].outcome = "accepted"
           /\ PassedValidation(mutation_log[i].returned)
        \/ /\ mutation_log[i].outcome = "rejected"
           /\ mutation_log[i].returned = NoneVal

\* ---------------------------------------------------------------- C11
\* record i of the history holds a score that is at least the threshold
Reached(i) == history[i].score.num >= score_threshold * history[i].score.den

\* C11: if the score evaluated in a generation is >= the threshold, evolution
\* ends in that generation: the mutator is not called in it, no later
\* generation runs, and evolve returns that generation's runnable and the
\* config it was built from.
C11_ThresholdEnds ==
    \A i \in 1..Len(history) :
        Reached(i) =>
            /\ i = Len(history)
            /\ generation = history[i].gen
            /\ evo_pc \in {"decide", "returned"}
            /\ events[Len(events)].gen = history[i].gen
            /\ events[Len(events)].step \in {"history", "decide"}
            /\ \A j \in 1..Len(mutation_log) : mutation_log[j].gen # history[i].gen
            /\ evo_pc = "returned" =>
                  /\ evo_result.agent # NoneVal
                  /\ evo_result.agent.gen = history[i].gen
                  /\ evo_result.agent.cfg = history[i].config
                  /\ evo_result.config = history[i].config

\* C11 witness: the second generation, built from an accepted mutation, reached
\* the threshold and evolve returned
C11_Witness ==
    /\ evo_pc = "returned"
    /\ Len(history) = 2
    /\ Reached(2) /\ ~Reached(1)
    /\ max_generations > 2
    /\ evo_result.config # initial_config

\* ---------------------------------------------------------------- C12
\* no generation reached the threshold and no call of the mutator failed
NoThresholdNoFailure ==
    /\ \A i \in 1..Len(history) : ~Reached(i)
    /\ \A j \in 1..Len(mutation_log) : mutation_log[j].outcome = "accepted"

\* the generations in which step was taken, in order
GenerationsOf(step) ==
    LET idx == SelectSeq([i \in 1..Len(events) |-> i], LAMBDA i : events[i].step = step)
    IN [k \in 1..Len(idx) |-> events[idx[k]].gen]

\* C12: if no generation reaches the threshold and no mutation fails, evolve
\* runs exactly max_generations generations, calls the mutator in every
\* generation but the last, and returns the last generation's runnable with
\* the config that generation evaluated.
C12_ExhaustsGenerations ==
    (evo_pc = "returned" /\ NoThresholdNoFailure) =>
        /\ GenerationsOf("evaluate") = [k \in 1..max_generations |-> k - 1]
        /\ GenerationsOf("mutate") = [k \in 1..(max_generations - 1) |-> k - 1]
        /\ evo_result.agent # NoneVal
        /\ evo_result.agent.gen = max_generations - 1
        /\ evo_result.config = history[Len(history)].config
        /\ evo_result.agent.cfg = evo_result.config

\* ---------------------------------------------------------------- C13
\* what a step may do to the history: nothing, or append the record of the
\* generation just evaluated
HistoryStep ==
    \/ history' = history
    \/ /\ Len(history') = Len(history) + 1
       /\ SubSeq(history', 1, Len(history)) = history
       /\ history'[Len(history')] =
             [gen |-> generation, config |-> cur_agent_dna_config, score |-> score]
       /\ events[Len(events)] = [gen |-> generation, step |-> "evaluate"]

\* the history holds one record for each evaluated generation, in order, the
\* last one missing only while the append is the next statement
HistoryShape ==
    /\ Len(history) <= max_generations
    /\ \A i, j \in 1..Len(history) : i < j => history[i].gen < history[j].gen
    /\ LET gens == GenerationsOf("evaluate")
       IN IF evo_pc = "record"
          THEN [i \in 1..Len(history) |-> history[i].gen]
                  = SubSeq(gens, 1, Len(gens) - 1)
          ELSE [i \in 1..Len(history) |-> history[i].gen] = gens

\* C13: the history is append-only: every evaluated generation appends exactly
\* one record (generation index, config snapshot, score), no record is ever
\* changed or removed, also when the active config is replaced later, the
\* generation indices are strictly increasing and there are at most
\* max_generations records.
C13_HistoryAppendOnly == [][HistoryStep]_vars /\ [](evo_pc # "" => HistoryShape)

\* C13 witness: two records, the first still holding the config that was
\* active before the mutation replaced it
C13_Witness ==
    /\ Len(history) = 2
    /\ history[1].config = initial_config
    /\ history[2].config = cur_agent_dna_config
    /\ cur_agent_dna_config # initial_config

\* ---------------------------------------------------------------- C14
\* the last node of the trace was invoked and returned, and the flow mapping
\* has no entry for it
TerminalNodeRan ==
    /\ trace_path # <<>>
    /\ status = "loop"
    /\ trace_path[Len(trace_path)] \notin DOMAIN agent.rules

\* C14: a node without an entry in the flow mapping is terminal: once it has
\* been invoked successfully the next node is "end", and the run returns with
\* that node as the last entry of the trace.
C14_NoRuleIsTerminal ==
    TerminalNodeRan =>
        /\ current_node_name = "end"
        /\ returned =>
              /\ prediction["_trace_path"] = PyList(trace_path)
              /\ Len(outputs_log) = Len(trace_path)

\* C14 witness: a, then b which has no rule; the run returned before the step
\* bound
C14_Witness ==
    /\ returned
    /\ TerminalNodeRan
    /\ trace_path = <<"a", "b">>
    /\ steps < agent.max_steps

\* ---------------------------------------------------------------- C15
\* what a step may do to the context: nothing, or take every entry of the
\* outputs just returned and keep every other entry as it was
MergeStep ==
    /\ kwargs' = kwargs
    /\ DOMAIN context \subseteq DOMAIN context'
    /\ Len(outputs_log') = Len(outputs_log) => context' = context
    /\ Len(outputs_log') # Len(outputs_log) =>
          LET out == outputs_log'[Len(outputs_log')]
          IN /\ DOMAIN context' = DOMAIN context \cup DOMAIN out
             /\ \A k \in DOMAIN context' :
                   context'[k] = IF k \in DOMAIN out THEN out[k] ELSE context[k]

\* the context returned, without the entry that carries the trace
FinalContext == [k \in DOMAIN prediction \ {"_trace_path"} |-> prediction[k]]

\* C15: the context starts as a copy of the inputs; each successful call
\* overwrites the same-named entries with the node's outputs and leaves every
\* other entry unchanged, no key is ever removed; the final context is the
\* inputs overwritten by the outputs in the order of the calls.
C15_ContextMerge ==
    /\ [][MergeStep]_vars
    /\ [](status # "idle" =>
            /\ outputs_log = <<>> => context = kwargs
            /\ context = Accumulated
            /\ returned => FinalContext = Accumulated
                           /\ prediction["_trace_path"] = PyList(trace_path))

\* C15 witness: node a alone, input x = "0", a returned x = "9" and an answer:
\* the final context holds the new x and the answer, the trace is <<a>>
C15_Witness ==
    /\ returned
    /\ trace_path = <<"a">>
    /\ kwargs = [x |-> PyStr(<<"0">>)]
    /\ FinalContext = [x |-> PyStr(<<"9">>), answer |-> PyStr(<<"4">>)]

\* ---------------------------------------------------------------- C16
\* two parsed flow rules are the same rule: same variant, same targets, and
\* for a branch the same keys in the same order and the same default
SameRule(r1, r2) ==
    /\ r1.kind = r2.kind
    /\ r1.kind = "sequence" => r1.next = r2.next
    /\ r1.kind = "branch" =>
          /\ r1.source_var = r2.source_var
          /\ Len(r1.branches) = Len(r2.branches)
          /\ \A i \in 1..Len(r1.branches) : r1.branches[i] = r2.branches[i]
          /\ r1.default = r2.default

\* C16: serializing a valid config to its declarative form and parsing that
\* form again gives a config with the same agent_id, version, start_node,
\* nodes and flow; every rule comes back as the variant it was.
C16_RoundTrip ==
    reparsed # NoneVal =>
        /\ reparsed.ok
        /\ LET c1 == construction.config
               c2 == reparsed.config
           IN /\ c2.agent_id = c1.agent_id
              /\ c2.version = c1.version
              /\ c2.start_node = c1.start_node
              /\ DOMAIN c2.nodes = DOMAIN c1.nodes
              /\ \A n \in DOMAIN c1.nodes : c2.nodes[n] = c1.nodes[n]
              /\ Len(c2.flow) = Len(c1.flow)
              /\ \A i \in 1..Len(c1.flow) :
                    /\ c2.flow[i][1] = c1.flow[i][1]
                    /\ SameRule(c1.flow[i][2], c2.flow[i][2])

\* C16 witness: a config with a sequence rule and a branch rule whose default
\* is not "end" went through the round trip
C16_Witness ==
    /\ reparsed # NoneVal
    /\ Len(construction.config.flow) = 2
    /\ \E i, j \in 1..2 :
          /\ construction.config.flow[i][2].kind = "sequence"
          /\ construction.config.flow[j][2].kind = "branch"
          /\ construction.config.flow[j][2].default = "a"
          /\ reparsed.config.flow[j][2].default = "a"

\* ---------------------------------------------------------------- C17
\* the graph defects of a raw config: an unresolved start_node (at "") and
\* every target of a flow entry that is neither a defined node nor "end"
GraphDefects(raw) ==
    LET valid == DOMAIN raw.nodes \cup {"end"}
    IN (IF raw.start_node \notin valid
        THEN {[loc |-> "", target |-> raw.start_node]} ELSE {})
       \cup UNION {{[loc |-> raw.flow[i][1], target |-> t] :
                       t \in RawTargets(raw.flow[i][2]) \ valid} : i \in 1..Len(raw.flow)}

\* the defects a construction attempt reported
Reported == {[loc |-> e.loc, target |-> e.target] : e \in construction.errors}

\* C17: validation is exhaustive: one construction attempt reports every
\* defect of the raw configuration, not only the first one met.
C17_ExhaustiveValidation ==
    Constructed => GraphDefects(raw_config) \subseteq Reported

\* ---------------------------------------------------------------- C18
\* the signature names at least one input before its arrow and at least one
\* output after it
NamesInputAndOutput(sig) ==
    \E i \in 1..(Len(sig) - 1) :
        /\ sig[i] = "-" /\ sig[i + 1] = ">"
        /\ \E j \in 1..(i - 1) : sig[j] \notin Whitespace \cup {","}
        /\ \E j \in (i + 2)..Len(sig) : sig[j] \notin Whitespace \cup {","}

\* C18: no constructed config has a node whose signature fails to name at
\* least one input and at least one output; construction fails for it.
C18_SignatureNamesBoth ==
    (Constructed /\ construction.ok) =>
        \A n \in DOMAIN raw_config.nodes :
            NamesInputAndOutput(construction.config.nodes[n].signature)

\* ---------------------------------------------------------------- C19
\* C19: if the inner-loop optimizer fails in a generation, the generation goes
\* on with the unmodified runnable: it is the one evaluated, its score is
\* recorded, it is the one returned if the generation ends the evolution, and
\* evolve neither raises nor stops because of the failure.
C19_InnerLoopFailSoft ==
    \A i \in 1..Len(inner_log) :
        ~inner_log[i].ok =>
            LET g == inner_log[i].gen
                a == inner_log[i].agent_in
            IN /\ a # NoneVal /\ a.gen = g
               /\ Len(evaluated) >= i => evaluated[i] = a
               /\ Len(history) >= i => history[i].gen = g /\ history[i].config = a.cfg
               /\ i = Len(inner_log) => optimized_agent = a
               /\ (i = Len(inner_log) /\ events[Len(events)].step = "optimize") =>
                     evo_pc = "stage3"
               /\ (i = Len(inner_log) /\ evo_pc = "returned") => evo_result.agent = a

\* C19 witness: compile failed in the second generation, whose score reached
\* the threshold, and evolve returned the uncompiled runnable
C19_Witness ==
    /\ evo_pc = "returned"
    /\ Len(inner_log) = 2
    /\ ~inner_log[2].ok
    /\ Len(history) = 2 /\ Reached(2)
    /\ evo_result.agent = inner_log[2].agent_in
    /\ ~evo_result.agent.compiled

\* ---------------------------------------------------------------- C20
\* the run halted because the current node became "end"
Completed == returned /\ status = "loop" /\ current_node_name = "end"

\* the run halted because the step bound was reached before "end"
StepLimitExceeded ==
    returned /\ status = "loop" /\ current_node_name # "end" /\ steps >= agent.max_steps

\* C20: a run that halts because the current node became "end" is Completed
\* and is not reported as step-limited, also when "end" is reached on exactly
\* the max_steps-th step; the step-limit report occurs only when the bound was
\* reached before "end".
C20_TerminalStatus ==
    returned =>
        /\ Completed => ~max_steps_reported
        /\ max_steps_reported => StepLimitExceeded

\* ------------------------------------------- interleaved calls of one agent
\* forward keeps context, current_node_name, steps and trace_path in locals of
\* the call and reads self only; several calls of one agent each own a frame.

MaxRuns == 2
RunIds == 1..MaxRuns

ParAgentSamples ==
    {[modules |-> {"a", "b"}, start_node |-> "a", max_steps |-> 2,
      rules |-> [n \in {"a", "b"} |-> IF n = "a" THEN BranchYesNo ELSE [next |-> "a"]]],
     [modules |-> {"a", "b"}, start_node |-> "a", max_steps |-> 2,
      rules |-> [n \in {"a"} |-> [next |-> "b"]]]}

ParOutcomeSamples ==
    {[fails |-> FALSE, outputs |-> [decision |-> PyStr(TextYesPlease)]],
     [fails |-> FALSE, outputs |-> [answer |-> PyStr(<<"4">>), x |-> PyStr(<<"9">>)]],
     [fails |-> TRUE, outputs |-> EmptyDict]}

\* one pass of the loop of call r: only the locals of call r change
StepOf_sharedContext(frames, r, self, outcome) ==
    LET f == Iteration(self, frames[r], outcome)
    IN [q \in DOMAIN frames |->
           IF q = r THEN f ELSE [frames[q] EXCEPT !.context = f.context]]
StepOf(frames, r, self, outcome) ==
    [frames EXCEPT ![r] = Iteration(self, frames[r], outcome)]

InitRuns ==
    /\ par_agent \in ParAgentSamples
    /\ par_inputs \in [RunIds -> KwargsSamples]
    /\ par_frames = [r \in RunIds |-> InitialFrame(par_agent, par_inputs[r])]
    /\ par_outcomes = [r \in RunIds |-> <<>>]
    /\ par_results = [r \in RunIds |-> NoneVal]
    /\ IdleConfig /\ IdleRoute /\ IdleRun /\ IdleEval /\ IdleEvolve /\ IdleArtifact /\ IdlePropose

\* call r runs one pass of its loop while the other calls are suspended
RunStep(r) ==
    /\ Running(par_agent, par_frames[r])
    /\ \E outcome \in ParOutcomeSamples :
          /\ par_frames' = StepOf(par_frames, r, par_agent, outcome)
          /\ par_outcomes' = [par_outcomes EXCEPT ![r] = Append(@, outcome)]
    /\ UNCHANGED <<par_agent, par_inputs, par_results,
                   cfgVars, routeVars, runVars, evalVars, evoVars, artVars, propVars>>

\* call r leaves its loop and returns its Prediction
RunReturn(r) ==
    /\ par_results[r] = NoneVal
    /\ ~Running(par_agent, par_frames[r])
    /\ par_results' = [par_results EXCEPT ![r] = Prediction(par_frames[r])]
    /\ UNCHANGED <<par_agent, par_inputs, par_frames, par_outcomes,
                   cfgVars, routeVars, runVars, evalVars, evoVars, artVars, propVars>>

NextRuns == \E r \in RunIds : RunStep(r) \/ RunReturn(r)

SpecRuns == InitRuns /\ [][NextRuns]_vars

\* the frame call r would have if it ran alone on its own inputs and met the
\* outcomes it has met so far
RECURSIVE Replay(_, _, _, _)
Replay(self, f, log, i) ==
    IF i > Len(log) THEN f ELSE Replay(self, Iteration(self, f, log[i]), log, i + 1)
Alone(r) == Replay(par_agent, InitialFrame(par_agent, par_inputs[r]), par_outcomes[r], 1)

RECURSIVE OwnWrites(_, _, _)
OwnWrites(inp, log, i) ==
    IF i > Len(log) \/ log[i].fails THEN inp
    ELSE OwnWrites([k \in DOMAIN inp \cup DOMAIN log[i].outputs |->
                       IF k \in DOMAIN log[i].outputs THEN log[i].outputs[k] ELSE inp[k]],
                   log, i + 1)

\* C21: each of several interleaved runs of one agent is isolated: at every
\* moment a run's context is its own inputs overwritten by the outputs of its
\* own node invocations, its trace, node and step count are what they would be
\* had it run alone, a step of one run changes no other run's frame, and the
\* caller's input mapping of every run stays as it was passed.
C21_RunsIsolated ==
    /\ [](\A r \in RunIds :
            /\ par_frames[r] = Alone(r)
            /\ par_frames[r].context = OwnWrites(par_inputs[r], par_outcomes[r], 1)
            /\ par_results[r] # NoneVal => par_results[r] = Prediction(Alone(r)))
    /\ [][/\ par_inputs' = par_inputs
          /\ \A r \in RunIds :
                par_outcomes'[r] = par_outcomes[r] => par_frames'[r] = par_frames[r]]_vars

\* two runs are both in the middle of their loops, with different contexts,
\* each having overwritten or added values of its own
C21_Witness ==
    /\ Running(par_agent, par_frames[1]) /\ Running(par_agent, par_frames[2])
    /\ Len(par_frames[1].trace_path) = 1 /\ Len(par_frames[2].trace_path) = 1
    /\ par_inputs[1] # par_inputs[2]
    /\ "answer" \in DOMAIN par_frames[1].context
    /\ "answer" \notin DOMAIN par_frames[2].context
    /\ par_frames[2].context # par_inputs[2]

\* ------------------------------------------ runs of agents built from configs
\* The agent of a description: one module per node, start_node and the rules
\* of the flow, as GraphAgent.__init__ takes them from the loaded description.
RulesOf(flow) ==
    [k \in {flow[i][1] : i \in 1..Len(flow)} |->
        flow[CHOOSE i \in 1..Len(flow) : flow[i][1] = k][2]]

GraphAgentOf(description, limit) ==
    [modules |-> DOMAIN description.nodes, start_node |-> description.start_node,
     rules |-> RulesOf(description.flow), max_steps |-> limit]

RunRuleSamplesOfB ==
    {[next |-> "a"], [next |-> "ghost"],
     [type |-> "branch", source_var |-> "decision", branches |-> <<<<KeyNO, "a">>>>]}

RunFlowSamples ==
    {<<>>}
    \cup {<<<<"a", ra>>>> : ra \in RawRuleSamples}
    \cup {<<<<"a", ra>>, <<"b", rb>>>> : ra \in RawRuleSamples, rb \in RunRuleSamplesOfB}
    \cup {<<<<"ghost", [next |-> "ghost"]>>, <<"a", [next |-> "b"]>>>>}

RunConfigSamples ==
    {[agent_id |-> <<"m">>, start_node |-> s, nodes |-> [n \in ns |-> RawNode(SigGood)],
      flow |-> f] :
        s \in {"a", "b", "end", "ghost"}, ns \in {{"a"}, {"a", "b"}}, f \in RunFlowSamples}

\* a description is validated and, when it passes, the agent is built from the
\* declarative form of the config; a description that fails validation is
\* loaded as it is, which is what the loader of the engine does
InitConfigRun ==
    /\ raw_config \in RunConfigSamples
    /\ construction = AgentDNAConfig(raw_config)
    /\ declarative = IF construction.ok THEN model_dump(construction.config) ELSE NoneVal
    /\ reparsed = NoneVal
    /\ agent = GraphAgentOf(IF construction.ok THEN declarative ELSE raw_config, MaxSteps)
    /\ kwargs = [x |-> PyStr(<<"0">>)]
    /\ context = InitialFrame(agent, kwargs).context
    /\ current_node_name = InitialFrame(agent, kwargs).current_node_name
    /\ steps = 0 /\ trace_path = <<>> /\ status = "loop" /\ returned = FALSE
    /\ max_steps_reported = FALSE
    /\ prediction = EmptyDict /\ invocations = 0 /\ outputs_log = <<>>
    /\ IdleRoute /\ IdleEval /\ IdleEvolve /\ IdleRuns /\ IdleArtifact /\ IdlePropose

SpecConfigRun == InitConfigRun /\ [][NextRun]_vars

TraceStep ==
    \/ trace_path' = trace_path
    \/ /\ trace_path' = Append(trace_path, current_node_name)
       /\ invocations' = invocations + (IF current_node_name \in agent.modules THEN 1 ELSE 0)
       /\ \/ /\ steps' = steps + 1 /\ status' = "loop"
             /\ current_node_name' = ResolveNext(agent, current_node_name, context')
          \/ /\ steps' = steps /\ status' \in {"exec_error", "undefined"}
             /\ current_node_name' = current_node_name

\* the run halted on a name that is no node of the agent
HaltedOnUndefined ==
    /\ status \in {"exec_error", "undefined"}
    /\ current_node_name \notin agent.modules

\* C23: the trace lists the visited nodes in order: a node is appended before
\* it is called, so a node that raises or is undefined is still the last entry;
\* the first entry is start_node, each later entry is what the rule of the
\* entry before it resolved to, "end" is never an entry, and the length is the
\* number of node calls, plus one only if the run halted on an undefined node,
\* and never exceeds max_steps.
C23_Trace ==
    /\ [][TraceStep]_vars
    /\ [](status # "idle" =>
            /\ trace_path # <<>> => trace_path[1] = agent.start_node
            /\ \A i \in 1..Len(trace_path) : trace_path[i] # "end"
            /\ status \in {"exec_error", "undefined"} =>
                  trace_path # <<>> /\ trace_path[Len(trace_path)] = current_node_name
            /\ status = "loop" => Len(trace_path) = steps
            /\ Len(trace_path) = invocations + (IF HaltedOnUndefined THEN 1 ELSE 0)
            /\ Len(trace_path) <= agent.max_steps)

\* a run called a, was routed to the undefined node ghost and halted there:
\* two entries, one call
C23_Witness ==
    /\ returned /\ status = "undefined"
    /\ trace_path = <<"a", "ghost">>
    /\ invocations = 1
    /\ agent.max_steps = 2

\* ---------------------------------------------------------------- C24
\* the examples that did not pass, and the j-th of them in example order
Failing == (1..Len(trainset)) \ MetricTrue
NthFailing(j) == CHOOSE i \in Failing : Cardinality({k \in Failing : k < i}) = j - 1

\* C24: the diagnosis carries the overall score, the number of failing cases
\* and the descriptions of the first min(3, number of failing cases) failing
\* cases in example order; later failing cases are counted, not described.
C24_Diagnosis ==
    evaluation # NoneVal =>
        LET report == evaluation.diagnosis
            described == IF Cardinality(Failing) < 3 THEN Cardinality(Failing) ELSE 3
        IN /\ report.Current_Score = evaluation.score
           /\ report.Failure_Count = Cardinality(Failing)
           /\ Len(report.Bad_Cases) = described
           /\ \A j \in 1..described :
                 report.Bad_Cases[j] =
                     ExampleOutcome(runnable, trainset[NthFailing(j)], metric_func)

\* four failing cases, the fourth unlike the first: three are described and
\* the fourth is only counted
C24_Witness ==
    /\ evaluation # NoneVal
    /\ evaluation.diagnosis.Failure_Count = 4
    /\ Len(evaluation.diagnosis.Bad_Cases) = 3
    /\ \A j \in 1..3 :
          evaluation.diagnosis.Bad_Cases[j] #
              ExampleOutcome(runnable, trainset[4], metric_func)

\* ------------------------------------------- cleaning the architect's reply
\* the JSON texts an architect may write, and the markup it may put around one
ReplyIdSamples == {<<"m">>, <<"j", "s">>, <<"j", "s", "o", "n", "3">>, <<"m", "y", "j", "s", "o", "n">>}

ReplyBodySamples ==
    {[raw EXCEPT !.agent_id = id] :
        raw \in {SeedRaw, ProposalTwoNodes, ProposalDangling}, id \in ReplyIdSamples}

FenceStyles == {"tagged", "untagged", "tagged_inline"}

FencedAs(style, body) ==
    IF style = "tagged" THEN Fenced(body)
    ELSE IF style = "untagged"
         THEN <<Backtick, Backtick, Backtick, Newline>> \o body
              \o <<Newline, Backtick, Backtick, Backtick>>
         ELSE <<Backtick, Backtick, Backtick, TagJson>> \o body
              \o <<Backtick, Backtick, Backtick>>

InitPropose ==
    /\ reply_body \in ReplyBodySamples
    /\ reply_fence \in FenceStyles
    /\ from_bare = NoneVal /\ from_fenced = NoneVal
    /\ IdleConfig /\ IdleRoute /\ IdleRun /\ IdleEval /\ IdleEvolve /\ IdleRuns /\ IdleArtifact

\* the architect replies with T alone
ProposeBare ==
    /\ from_bare = NoneVal
    /\ from_bare' = ParseReply(<<JsonTok(reply_body)>>)
    /\ UNCHANGED <<reply_body, reply_fence, from_fenced,
                   cfgVars, routeVars, runVars, evalVars, evoVars, parVars, artVars>>

\* the architect replies with T inside code-fence markup
ProposeFenced ==
    /\ from_fenced = NoneVal
    /\ from_fenced' = ParseReply(FencedAs(reply_fence, <<JsonTok(reply_body)>>))
    /\ UNCHANGED <<reply_body, reply_fence, from_bare,
                   cfgVars, routeVars, runVars, evalVars, evoVars, parVars, artVars>>

NextPropose == ProposeBare \/ ProposeFenced

SpecPropose == InitPropose /\ [][NextPropose]_vars

\* C25: stripping the code fence is transparent: for every text T that parses
\* to a valid configuration, T wrapped in code-fence markup, with or without
\* a language tag, gives the same config as T alone, also when T contains the
\* letters of the language tag.
C25_FenceTransparent ==
    (from_bare # NoneVal /\ from_fenced # NoneVal /\ from_bare.config # NoneVal) =>
        from_fenced = from_bare

\* ---------------------------------------------------------------- C26
StepOrder == <<"build", "optimize", "evaluate", "history", "decide", "mutate">>
StepIndex(step) == CHOOSE i \in 1..Len(StepOrder) : StepOrder[i] = step

\* the mutation of generation g returned a config
MutationSucceeded(g) ==
    \E i \in 1..Len(mutation_log) :
        mutation_log[i].gen = g /\ mutation_log[i].outcome = "accepted"

\* C26: within a generation the steps happen in the order build, optimize,
\* evaluate, append history, decide, mutate, each after the one before it has
\* finished; the agent evaluated is the one the inner loop of the same
\* generation returned; the build of generation N+1 follows directly on the
\* mutation of generation N and only if that mutation returned a config, so
\* the generations never overlap.
C26_StepOrdering ==
    /\ events # <<>> => events[1] = [gen |-> 0, step |-> "build"]
    /\ \A i \in 1..(Len(events) - 1) :
          LET e == events[i]
              n == events[i + 1]
          IN \/ n.gen = e.gen /\ StepIndex(n.step) = StepIndex(e.step) + 1
             \/ /\ n.gen = e.gen + 1 /\ n.step = "build"
                /\ e.step = "mutate" /\ MutationSucceeded(e.gen)
    /\ Len(evaluated) <= Len(inner_log)
    /\ \A k \in 1..Len(evaluated) :
          /\ inner_log[k].agent_in # NoneVal
          /\ inner_log[k].agent_in.gen = inner_log[k].gen
          /\ GenerationsOf("evaluate")[k] = inner_log[k].gen
          /\ evaluated[k] = IF inner_log[k].ok
                            THEN [inner_log[k].agent_in EXCEPT !.compiled = TRUE]
                            ELSE inner_log[k].agent_in

\* the run went through all six steps of generation 0 and through the first
\* five of generation 1 before it returned
C26_Witness ==
    /\ evo_pc = "returned"
    /\ Len(events) = 11
    /\ events[6] = [gen |-> 0, step |-> "mutate"]
    /\ events[7] = [gen |-> 1, step |-> "build"]
    /\ events[11] = [gen |-> 1, step |-> "decide"]

\* ---------------------------------------------------------------- C27
\* C27: when start_node is "end", or max_steps is 0, a run calls no node: the
\* trace stays empty and the context, also the one returned, holds exactly
\* the initial inputs.
C27_EmptyRun ==
    (status # "idle" /\ (agent.start_node = "end" \/ agent.max_steps = 0)) =>
        /\ invocations = 0
        /\ trace_path = <<>>
        /\ outputs_log = <<>>
        /\ context = kwargs
        /\ ~returned => ENABLED Return
        /\ returned =>
              /\ prediction["_trace_path"] = PyList(<<>>)
              /\ [k \in DOMAIN prediction \ {"_trace_path"} |-> prediction[k]] = kwargs

\* an agent whose start node is a defined node and whose step budget is 0
\* returned, its inputs holding two entries
C27_Witness ==
    /\ returned
    /\ agent.max_steps = 0 /\ agent.start_node = "a"
    /\ Cardinality(DOMAIN kwargs) = 2

\* ---------------------------------------------------------------- C28
\* C28: on every exit of evolve the runnable returned is the one built, and
\* possibly optimized, from the config returned, and the config returned is
\* the snapshot of the last history record; no exit pairs the runnable of one
\* generation with the config of another.
C28_PairConsistent ==
    evo_pc = "returned" =>
        /\ evo_result.agent # NoneVal
        /\ evo_result.agent.cfg = evo_result.config
        /\ history # <<>>
        /\ history[Len(history)].config = evo_result.config

\* ---------------------------------------------------------------- C29
\* key i of the rule hides the later key j: its upper-cased form occurs in the
\* upper-cased form of key j (the empty key occurs in every key)
Shadows(i, j) ==
    /\ i < j
    /\ OccursIn(Upper(route_rule.branches[i][1]), Upper(route_rule.branches[j][1]))

TargetsUpTo(i) == {route_rule.branches[k][2] : k \in 1..i}

\* C29: a branch key that is a substring of a later key, or the empty key, wins
\* over that later key: whenever the value matches the later key the target
\* taken is the one of the earlier key or of a key before it; the empty key
\* matches every value, also an absent source variable, so no key after it
\* and not the default decides the target.
C29_KeyShadowing ==
    route_next # "" =>
        /\ \A i, j \in 1..Len(route_rule.branches) :
              (Shadows(i, j) /\ j \in RouteHits) => route_next \in TargetsUpTo(i)
        /\ \A i \in 1..Len(route_rule.branches) :
              route_rule.branches[i][1] = <<>> => route_next \in TargetsUpTo(i)

\* {fail: b, FAILED: c} with "test FAILED today": the value holds the later key
\* and is routed to b
C29_Witness ==
    /\ route_next = "b"
    /\ route_rule.branches = <<<<KeyFail, "b">>, <<KeyFAILED, "c">>>>
    /\ route_context = [decision |-> PyStr(TextFailedToday)]
    /\ Shadows(1, 2) /\ 2 \in RouteHits

\* ------------------------------------------------- case3: the written result
\* the configs evolve may return to case3
BestConfigSamples ==
    {AgentDNAConfig(raw).config : raw \in {r \in RunConfigSamples : AgentDNAConfig(r).ok}}

\* BaseModel.model_dump_json: a str holding the JSON text of the declarative form
model_dump_json(self) == PyStr(<<JsonTok(model_dump(self))>>)

\* json.dump(obj, f): the document that encodes the value obj, a JSON string
\* for a str and a JSON object for a dict
JsonDump(obj) == <<JsonTok(obj)>>

\* config = json.loads(fd.read()); AgentDNAConfig(**config): ** takes a
\* mapping only
LoadConfig(document) ==
    LET config == JsonLoads(document)
    IN IF ~config.ok THEN [ok |-> FALSE, error |-> "JSONDecodeError", config |-> NoneVal]
       ELSE IF config.value = NoneVal \/ "str" \in DOMAIN config.value
            THEN [ok |-> FALSE, error |-> "TypeError", config |-> NoneVal]
            ELSE LET made == AgentDNAConfig(config.value)
                 IN [ok |-> made.ok,
                     error |-> IF made.ok THEN "" ELSE "ValidationError",
                     config |-> made.config]

InitPersist ==
    /\ best_config = NoneVal /\ artifact = NoneVal /\ writes = 0 /\ loaded = NoneVal
    /\ IdleConfig /\ IdleRoute /\ IdleRun /\ IdleEval /\ IdleEvolve /\ IdleRuns /\ IdlePropose

\* best_agent, best_config = optimizer.evolve()
EvolveReturns ==
    /\ best_config = NoneVal
    /\ best_config' \in BestConfigSamples
    /\ UNCHANGED <<artifact, writes, loaded,
                   cfgVars, routeVars, runVars, evalVars, evoVars, parVars, propVars>>

\* json.dump(best_config.model_dump_json(), f, ...)
WriteArtifact ==
    /\ best_config # NoneVal
    /\ writes = 0
    /\ artifact' = JsonDump(model_dump_json(best_config))
    /\ writes' = writes + 1
    /\ UNCHANGED <<best_config, loaded,
                   cfgVars, routeVars, runVars, evalVars, evoVars, parVars, propVars>>

\* the written file is read the way case3 reads its input file
LoadArtifact ==
    /\ writes > 0
    /\ loaded = NoneVal
    /\ loaded' = LoadConfig(artifact)
    /\ UNCHANGED <<best_config, artifact, writes,
                   cfgVars, routeVars, runVars, evalVars, evoVars, parVars, propVars>>

NextPersist == EvolveReturns \/ WriteArtifact \/ LoadArtifact

SpecPersist == InitPersist /\ [][NextPersist]_vars

\* C30: the file written at the end of an evolution run holds the best config
\* in the declarative form of the input: loading it the way the input is
\* loaded succeeds and gives a config equal to the one evolve returned; the
\* file is written once, after evolve has returned.
C30_ArtifactLoadsBack ==
    /\ writes <= 1
    /\ writes = 1 => best_config # NoneVal
    /\ loaded # NoneVal => loaded.ok /\ loaded.config = best_config

====
